---- MODULE Spec2Model ----
(***************************************************************************)
(* State-machine model of the AI endpoints of zulip-ai-showcase:           *)
(*   backend/ai.py             generate_message_recap, suggest_topic_title *)
(*   backend/topic_improver.py suggest_topic_title_backend                 *)
(*   backend/message_recap.py  message_recap                               *)
(* A Python str is a sequence of one-character tokens.  One request (or    *)
(* one direct library call) is processed per behaviour; the settings are   *)
(* read by the ai.py functions when they are entered.                      *)
(***************************************************************************)
EXTENDS Integers, Sequences, FiniteSets, TLC

VARIABLES
    api_key,        \* ai.py local: getattr(settings, "LLM_API_KEY", None)
    provider,       \* ai.py local: getattr(settings, "LLM_PROVIDER", "openai")
    pc,             \* control location of the request being processed
    caller,         \* who entered the ai.py function: a view or a direct call
    request,        \* the HTTP request as received by the view
    message_id,     \* topic view local: parsed message_id (<<>> is None)
    message_ids,    \* view local: parsed id list
    anchor_id,      \* topic view local (<<>> until computed)
    texts,          \* view local: resolved message texts, caller order
    messages,       \* ai.py argument
    ordered_ids,    \* recap view local and generate_message_recap argument message_ids
    current_title,  \* topic view local and ai.py argument
    labelled,       \* ai.py local: truncated messages
    http_request,   \* payload handed to requests.post
    prompt_src,     \* for each character of the user prompt, the index of the
                    \* input message it was copied from (0: not from a message)
    resp,           \* what requests.post produced
    content,        \* generate_message_recap local
    clean,          \* generate_message_recap local
    result,         \* return value / exception of the ai.py function
    response,       \* what the view hands back to the client
    llm_calls,      \* calls of generate_message_recap / suggest_topic_title
    http_posts      \* calls of requests.post

vars == <<api_key, provider, pc, caller, request, message_id, message_ids, anchor_id,
          texts, messages, ordered_ids, current_title, labelled, http_request, prompt_src,
          resp, content, clean, result, response, llm_calls, http_posts>>

\* what the view has parsed and resolved
viewVars == <<request, message_id, message_ids, anchor_id, texts>>
\* the arguments of the ai.py function
argVars == <<caller, messages, ordered_ids, current_title>>
\* the settings the ai.py function has read
settingVars == <<api_key, provider>>

-----------------------------------------------------------------------------
(* Characters.  NL is "\n"; BT and DQ stand for the backtick and the        *)
(* double quote.                                                           *)
NL == "\n"
BT == "backtick"
DQ == "dquote"
Whitespace == {" ", NL, "\t", "\r"}
LineBreaks == {NL, "\r"}
Digits == <<"0", "1", "2", "3", "4", "5", "6", "7", "8", "9">>
LowerAlpha ==
    <<"a", "b", "c", "d", "e", "f", "g", "h", "i", "j", "k", "l", "m",
      "n", "o", "p", "q", "r", "s", "t", "u", "v", "w", "x", "y", "z">>
UpperAlpha ==
    <<"A", "B", "C", "D", "E", "F", "G", "H", "I", "J", "K", "L", "M",
      "N", "O", "P", "Q", "R", "S", "T", "U", "V", "W", "X", "Y", "Z">>
Range(f) == {f[i] : i \in DOMAIN f}
WordChars == Range(LowerAlpha) \cup Range(UpperAlpha) \cup Range(Digits) \cup {"_"}

-----------------------------------------------------------------------------
(* Python str / list primitives.                                           *)
Min2(a, b) == IF a < b THEN a ELSE b
Rep(c, n) == [i \in 1..n |-> c]
\* s[:n]
Take(s, n) == SubSeq(s, 1, Min2(n, Len(s)))
\* s[-n:]
LastN(s, n) == SubSeq(s, Len(s) - Min2(n, Len(s)) + 1, Len(s))
\* index of the first element of s in C, 0 when there is none
FirstIndex(s, C) ==
    IF \E i \in 1..Len(s) : s[i] \in C
    THEN CHOOSE i \in 1..Len(s) : s[i] \in C /\ \A j \in 1..(i - 1) : s[j] \notin C
    ELSE 0
\* index of the last element of s not in C, 0 when there is none
LastIndexNotIn(s, C) ==
    IF \E i \in 1..Len(s) : s[i] \notin C
    THEN CHOOSE i \in 1..Len(s) : s[i] \notin C /\ \A j \in (i + 1)..Len(s) : s[j] \in C
    ELSE 0
\* s.strip()
Strip(s) ==
    LET hi == LastIndexNotIn(s, Whitespace)
        lo == FirstIndex(s, Range(s) \ Whitespace)
    IN  IF hi = 0 THEN <<>> ELSE SubSeq(s, lo, hi)
\* s.split(c, 1)[0]
SplitFirst(s, c) ==
    LET i == FirstIndex(s, {c}) IN IF i = 0 THEN s ELSE SubSeq(s, 1, i - 1)
\* s.split(c, 1) has a second element
HasSplitRest(s, c) == FirstIndex(s, {c}) # 0
\* s.split(c, 1)[1]
SplitRest(s, c) == SubSeq(s, FirstIndex(s, {c}) + 1, Len(s))
\* s.startswith(p)
StartsWith(s, p) == Len(s) >= Len(p) /\ SubSeq(s, 1, Len(p)) = p
\* p in s
Contains(s, p) == \E i \in 1..(Len(s) - Len(p) + 1) : SubSeq(s, i, i + Len(p) - 1) = p
\* s.rsplit(p, 1)[0]
RSplitFirst(s, p) ==
    LET at == {i \in 1..(Len(s) - Len(p) + 1) : SubSeq(s, i, i + Len(p) - 1) = p}
    IN  IF at = {} THEN s
        ELSE SubSeq(s, 1, (CHOOSE i \in at : \A j \in at : j <= i) - 1)
\* s.splitlines() is the empty list
SplitLinesEmpty(s) == s = <<>>
\* s.splitlines()[0], for s that does not start with a line break
SplitLinesFirst(s) ==
    LET i == FirstIndex(s, LineBreaks) IN IF i = 0 THEN s ELSE SubSeq(s, 1, i - 1)
\* s.replace(a, b) for single characters
Replace(s, a, b) == [i \in 1..Len(s) |-> IF s[i] = a THEN b ELSE s[i]]
\* concatenation of seqs[lo..hi]
RECURSIVE Flatten(_, _, _)
Flatten(seqs, lo, hi) ==
    IF lo > hi THEN <<>>
    ELSE IF lo = hi THEN seqs[lo]
    ELSE LET mid == (lo + hi) \div 2
         IN  Flatten(seqs, lo, mid) \o Flatten(seqs, mid + 1, hi)
\* sep.join(parts)
Join(sep, parts) ==
    Flatten([i \in 1..(2 * Len(parts) - 1) |->
                IF i % 2 = 1 THEN parts[(i + 1) \div 2] ELSE sep],
            1, 2 * Len(parts) - 1)
\* s.lower()
LowerTable == [c \in Range(UpperAlpha) |-> LowerAlpha[CHOOSE i \in 1..26 : UpperAlpha[i] = c]]
LowerChar(c) == IF c \in DOMAIN LowerTable THEN LowerTable[c] ELSE c
Lower(s) == [i \in 1..Len(s) |-> LowerChar(s[i])]
\* sum(len(t) for t in ts)
RECURSIVE SumLen(_)
SumLen(ts) == IF ts = <<>> THEN 0 ELSE Len(Head(ts)) + SumLen(Tail(ts))
\* int(s) succeeds (decimal digits only; signs, blanks and underscores are
\* not among the modelled inputs)
IsIntLiteral(s) == s # <<>> /\ \A i \in 1..Len(s) : s[i] \in Range(Digits)
DigitValue(c) == (CHOOSE i \in 1..10 : Digits[i] = c) - 1
\* int(s)
RECURSIVE ParseInt(_)
ParseInt(s) ==
    IF Len(s) = 1 THEN DigitValue(s[1])
    ELSE 10 * ParseInt(SubSeq(s, 1, Len(s) - 1)) + DigitValue(s[Len(s)])
\* str(n) for n >= 0
RECURSIVE IntToStr(_)
IntToStr(n) ==
    IF n < 10 THEN <<Digits[n + 1]>> ELSE IntToStr(n \div 10) \o <<Digits[(n % 10) + 1]>>
\* django.utils.html.escape
EscapeChar(c) ==
    CASE c = "&" -> <<"&", "a", "m", "p", ";">>
      [] c = "<" -> <<"&", "l", "t", ";">>
      [] c = ">" -> <<"&", "g", "t", ";">>
      [] c = DQ  -> <<"&", "q", "u", "o", "t", ";">>
      [] c = "'" -> <<"&", "#", "x", "2", "7", ";">>
      [] OTHER   -> <<c>>
Escape(s) == Flatten([i \in 1..Len(s) |-> EscapeChar(s[i])], 1, Len(s))

-----------------------------------------------------------------------------
(* Program constants.                                                      *)
MAX_TOPIC_IDS == 50
MAX_RECAP_IDS == 200
MIN_MSGS == 2
MIN_AVG_LEN == 20
\* TITLE_MATCH_RATIO = 0.6, kept as the fraction 6/10
TITLE_MATCH_NUM == 6
TITLE_MATCH_DEN == 10
MIN_TOKEN_LEN == 3
TOPIC_RECENT == 30
TOPIC_MSG_CHARS == 800
TITLE_CHARS == 60
RECAP_MSG_CHARS == 3000
RECAP_MAX_MSGS == 200
FALLBACK_MSGS == 10
FALLBACK_CHARS == 4000
OPENAI == "openai"
NoKey == "<None>"

-----------------------------------------------------------------------------
(* The message store (zerver.models.Message): id -> content.  Id 7 is not  *)
(* stored.                                                                 *)
MsgA ==
    <<"D", "a", "t", "a", "b", "a", "s", "e", " ", "m", "i", "g", "r", "a", "t", "i", "o", "n",
      " ", "p", "l", "a", "n", " ", "f", "o", "r", " ", "Q", "3", "!">>
MsgB ==
    <<" ", " ", "L", "u", "n", "c", "h", " ", "o", "p", "t", "i", "o", "n", "s", " ", "n", "e",
      "a", "r", " ", "t", "h", "e", " ", "o", "f", "f", "i", "c", "e", NL>>
MsgC ==
    <<"o", "k", " ", "t", "h", "a", "n", "k", "s">>
MsgD ==
    <<" ", NL, " ">>
MessageStore == (1 :> MsgA) @@ (2 :> MsgB) @@ (3 :> MsgC) @@ (4 :> MsgD)
StoredIds == DOMAIN MessageStore
\* msg_map = {m.id: (m.content or "").strip() for m in msgs}, over the whole store
msg_map == [mid \in StoredIds |-> Strip(MessageStore[mid])]

None == <<>>
Some(v) == <<v>>

NoResponse ==
    [kind |-> "none", exc |-> "", error |-> "", suggested_title |-> <<>>,
     anchor_id |-> None, recap_html |-> <<>>]
\* raise exc(msg) out of the view
ErrorResponse(exc, msg) == [NoResponse EXCEPT !.kind = "error", !.exc = exc, !.error = msg]
\* json_success(request, {"suggested_title": ..., "anchor_id": ...})
TopicSuccess(title, anchor) ==
    [NoResponse EXCEPT !.kind = "success", !.suggested_title = title, !.anchor_id = anchor]
\* json_success(request, {"recap_html": ..., "message_refs": ...})
RecapSuccess(html) == [NoResponse EXCEPT !.kind = "success", !.recap_html = html]

NoResult == [kind |-> "none", value |-> <<>>, exc |-> ""]
Return(v) == [kind |-> "return", value |-> v, exc |-> ""]
Raise(e) == [kind |-> "raise", value |-> <<>>, exc |-> e]

NoHttp == [url |-> "", prompt_user |-> <<>>, max_tokens |-> 0, timeout |-> 0]
NoResp == [kind |-> "none", content |-> <<>>]

-----------------------------------------------------------------------------
(* topic_improver.py                                                       *)

\* _parse_int: [ok, value]; value is None for a missing or empty field
ParseIntField(value) ==
    IF value = None \/ value[1] = <<>> THEN [ok |-> TRUE, value |-> None]
    ELSE IF IsIntLiteral(value[1]) THEN [ok |-> TRUE, value |-> Some(ParseInt(value[1]))]
    ELSE [ok |-> FALSE, value |-> None]

\* _parse_int_list_from_post(request, "message_ids"): [ok, value].  raw_list is
\* what getlist found under "message_ids[]" or else under "message_ids".
ParseIntListFromPost(raw_list) ==
    LET kept == SelectSeq(raw_list, LAMBDA item : item # <<>>)
    IN  IF \E i \in 1..Len(kept) : ~IsIntLiteral(kept[i])
        THEN [ok |-> FALSE, value |-> <<>>]
        ELSE [ok |-> TRUE, value |-> [i \in 1..Len(kept) |-> ParseInt(kept[i])]]

\* AnchorId with the precedence reversed: the list's last entry wins
AnchorIdListFirst(mid, ids) == IF ids # <<>> THEN ids[Len(ids)] ELSE mid[1]
\* anchor_id = message_id if message_id is not None else message_ids[-1]
AnchorId(mid, ids) == IF mid # None THEN mid[1] ELSE ids[Len(ids)]

\* TooManyTopicIds off by one: len(message_ids) >= 50
TooManyTopicIdsFrom50(ids) == Len(ids) >= MAX_TOPIC_IDS
\* len(message_ids) > 50
TooManyTopicIds(ids) == Len(ids) > MAX_TOPIC_IDS

\* texts = [msg_map[mid] for mid in message_ids if mid in msg_map and msg_map[mid]]
ResolveTexts(ids) ==
    LET found == SelectSeq(ids, LAMBDA mid : mid \in StoredIds /\ msg_map[mid] # <<>>)
    IN  [i \in 1..Len(found) |-> msg_map[found[i]]]

\* texts = [(anchor.content or "").strip()] if (anchor.content or "").strip() else []
AnchorTexts(anchor) ==
    IF Strip(MessageStore[anchor]) # <<>> THEN <<Strip(MessageStore[anchor])>> ELSE <<>>

\* set(re.findall(r"\w{3,}", current_title.lower()))
TitleWords(title) ==
    LET t == Lower(title)
    IN  {SubSeq(t, i, j) : <<i, j>> \in
            {p \in (1..Len(t)) \X (1..Len(t)) :
                /\ p[2] - p[1] + 1 >= MIN_TOKEN_LEN
                /\ \A k \in p[1]..p[2] : t[k] \in WordChars
                /\ (p[1] = 1 \/ t[p[1] - 1] \notin WordChars)
                /\ (p[2] = Len(t) \/ t[p[2] + 1] \notin WordChars)}}

\* sum(1 for t in texts if any(w in t.lower() for w in title_words))
TitleMatches(ts, words) ==
    Cardinality({i \in 1..Len(ts) : \E w \in words : Contains(Lower(ts[i]), w)})

\* len(texts) < MIN_MSGS
TooFewTexts(ts) == Len(ts) < MIN_MSGS
\* TooShortTexts with the division left out: sum(len(t) for t in texts) < MIN_AVG_LEN
TooShortTextsBySum(ts) == SumLen(ts) < MIN_AVG_LEN
\* avg_len < MIN_AVG_LEN, avg_len = sum(len(t) for t in texts) / len(texts)
TooShortTexts(ts) == SumLen(ts) < MIN_AVG_LEN * Len(ts)
\* title_words and matches / len(texts) > TITLE_MATCH_RATIO
TitleStillFits(ts, title) ==
    LET words == TitleWords(title)
    IN  /\ words # {}
        /\ TitleMatches(ts, words) * TITLE_MATCH_DEN > TITLE_MATCH_NUM * Len(ts)

\* the heuristic gate, in the order of the code
HeuristicGate(ts, title) ==
    IF TooFewTexts(ts) THEN "too_few"
    ELSE IF TooShortTexts(ts) THEN "too_short"
    ELSE IF TitleStillFits(ts, title) THEN "title_fits"
    ELSE "pass"

\* the view up to (not including) its call of suggest_topic_title: the locals it
\* has assigned, and either the response it ends with or the call it makes
TopicView(post) ==
    LET mid    == ParseIntField(post.message_id)
        ids    == ParseIntListFromPost(post.ids)
        title  == post.current_title
        start  == [message_id |-> None, message_ids |-> <<>>, anchor_id |-> None,
                   texts |-> <<>>, current_title |-> title, calls |-> FALSE,
                   response |-> NoResponse]
        parsed == [start EXCEPT !.message_id = mid.value, !.message_ids = ids.value]
        anchor == AnchorId(mid.value, ids.value)
        anchored == [parsed EXCEPT !.anchor_id = Some(anchor)]
        ts     == IF ids.value # <<>> THEN ResolveTexts(ids.value) ELSE AnchorTexts(anchor)
        resolved == [anchored EXCEPT !.texts = ts]
    IN  IF ~mid.ok
        THEN [start EXCEPT !.response = ErrorResponse("JsonableError", "message_id is not an integer")]
        ELSE IF ~ids.ok
        THEN [start EXCEPT !.message_id = mid.value,
                           !.response = ErrorResponse("JsonableError", "message_ids contains non-integer value")]
        ELSE IF mid.value = None /\ ids.value = <<>>
        THEN [parsed EXCEPT !.response = ErrorResponse("JsonableError", "message_id or message_ids is required")]
        ELSE IF ids.value # <<>> /\ TooManyTopicIds(ids.value)
        THEN [anchored EXCEPT !.response = ErrorResponse("JsonableError", "Too many messages requested (max 50)")]
        ELSE IF ids.value = <<>> /\ anchor \notin StoredIds
        THEN [anchored EXCEPT !.response = ErrorResponse("JsonableError", "anchor message not found")]
        ELSE IF HeuristicGate(ts, title) # "pass"
        THEN [resolved EXCEPT !.response = TopicSuccess(<<>>, Some(anchor))]
        ELSE [resolved EXCEPT !.calls = TRUE]

-----------------------------------------------------------------------------
(* ai.py: suggest_topic_title                                              *)
SEP ==
    <<NL, NL, "-", "-", "-", NL, NL>>
LIT_CURRENT_TOPIC ==
    <<"C", "u", "r", "r", "e", "n", "t", " ", "t", "o", "p", "i", "c", ":", " ">>
LIT_RECENT ==
    <<"R", "e", "c", "e", "n", "t", " ", "m", "e", "s", "s", "a", "g", "e", "s", ":">>
LIT_SUGGEST ==
    <<"S", "u", "g", "g", "e", "s", "t", " ", "a", " ", "b", "e", "t", "t", "e", "r", " ", "t",
      "o", "p", "i", "c", " ", "t", "i", "t", "l", "e", " ", "i", "f", " ", "t", "h", "e", " ",
      "d", "i", "s", "c", "u", "s", "s", "i", "o", "n", " ", "f", "o", "c", "u", "s", " ", "h",
      "a", "s", " ", "c", "h", "a", "n", "g", "e", "d", ".">>
LIT_CURRENT_TITLE ==
    <<"C", "u", "r", "r", "e", "n", "t", " ", "t", "i", "t", "l", "e", ":", " ">>
LIT_MESSAGES ==
    <<"M", "e", "s", "s", "a", "g", "e", "s", ":", NL, NL>>
COMPLETIONS_URL == "https://api.openai.com/v1/chat/completions"

\* not api_key
NotConfigured(key) == key = NoKey \/ key = ""
\* UnsupportedProvider with the check left out
UnsupportedProviderNever(p) == FALSE
\* provider != "openai"
UnsupportedProvider(p) == p # OPENAI

\* recent = messages[-30:]; labelled = [text[:800] for text in recent]
TopicLabelled(msgs) ==
    LET recent == LastN(msgs, TOPIC_RECENT)
    IN  [i \in 1..Len(recent) |-> Take(recent[i], TOPIC_MSG_CHARS)]

\* the source of a character of literal text: no message
Unsourced(s) == Rep(0, Len(s))
\* every character of message k carries k
MessageSources(msgs) == [k \in 1..Len(msgs) |-> Rep(k, Len(msgs[k]))]
\* literal text of the prompt, or the source of each of its characters
Literal(s, sources) == IF sources THEN Unsourced(s) ELSE s

\* prompt_user = "\n".join(user_parts).  With sources = FALSE, msgs and title
\* are texts and the result is the prompt; with sources = TRUE they are the
\* sources of those texts and the result is the source of each prompt character.
TopicPromptUser(msgs, title, has_title, sources) ==
    LET user_parts ==
            <<Literal(LIT_CURRENT_TOPIC, sources) \o title, <<>>, Literal(LIT_RECENT, sources)>>
            \o msgs
            \o << <<>>, Literal(LIT_SUGGEST, sources) >>
            \o (IF has_title
                THEN <<Literal(LIT_CURRENT_TITLE, sources) \o title \o Literal(<<NL>>, sources)>>
                ELSE <<>>)
            \o <<Literal(LIT_RECENT \o <<NL>>, sources),
                 Join(Literal(SEP, sources), TopicLabelled(msgs))>>
    IN  Join(Literal(<<NL>>, sources), user_parts)

\* candidate or (current_title or "")
OrTitle(candidate, title) == IF candidate # <<>> THEN candidate ELSE title

\* no-key fallback: labelled[-1].split("\n", 1)[0].strip()[:60], or the title
TopicFallbackNoKey(lab, title) ==
    OrTitle(Take(Strip(SplitFirst(lab[Len(lab)], NL)), TITLE_CHARS), title)

\* except-branch fallback: messages[-1].split("\n", 1)[0].strip()[:60], or the title
TopicFallbackOnError(msgs, title) ==
    OrTitle(IF msgs # <<>> THEN Take(Strip(SplitFirst(msgs[Len(msgs)], NL)), TITLE_CHARS)
            ELSE <<>>,
            title)

\* resp.raise_for_status(); data = resp.json();
\* data.get("choices", [{}])[0].get("message", {}).get("content", "") or ""
\* [raises, content]
TopicContent(r) ==
    CASE r.kind \in {"exception", "status_error", "not_json", "not_object", "empty_choices"}
            -> [raises |-> TRUE, content |-> <<>>]
      [] r.kind \in {"no_choices", "null_content"}
            -> [raises |-> FALSE, content |-> <<>>]
      [] OTHER -> [raises |-> FALSE, content |-> r.content]

\* suggestion = content.strip().splitlines()[0][:60]
\* suggestion = suggestion.replace("\n", " ").strip()
\* [raises, value]
TopicSuggestion(text) ==
    LET stripped == Strip(text)
    IN  IF SplitLinesEmpty(stripped) THEN [raises |-> TRUE, value |-> <<>>]
        ELSE [raises |-> FALSE,
              value |-> Strip(Replace(Take(SplitLinesFirst(stripped), TITLE_CHARS), NL, " "))]

-----------------------------------------------------------------------------
(* ai.py: generate_message_recap                                           *)
NO_MESSAGES ==
    <<"<", "p", ">", "(", "n", "o", " ", "m", "e", "s", "s", "a", "g", "e", "s", ")", "<", "/",
      "p", ">">>
EMPTY_RECAP ==
    <<"<", "p", ">", "(", "e", "m", "p", "t", "y", " ", "r", "e", "c", "a", "p", ")", "<", "/",
      "p", ">">>
FALLBACK_OPEN ==
    <<"<", "p", ">", "<", "s", "t", "r", "o", "n", "g", ">", "R", "e", "c", "a", "p", " ", "(",
      "f", "a", "l", "l", "b", "a", "c", "k", ")", ":", "<", "/", "s", "t", "r", "o", "n", "g",
      ">", "<", "/", "p", ">", "<", "p", "r", "e", ">">>
FALLBACK_CLOSE ==
    <<"<", "/", "p", "r", "e", ">">>
WRAP_OPEN ==
    <<"<", "d", "i", "v", " ", "c", "l", "a", "s", "s", "=", "'", "a", "i", "-", "r", "e", "c",
      "a", "p", "'", ">">>
WRAP_CLOSE ==
    <<"<", "/", "d", "i", "v", ">">>
FENCE == <<BT, BT, BT>>
ALLOWED_TAGS ==
    {<<"d", "i", "v">>,
     <<"p">>,
     <<"b", "r">>,
     <<"s", "t", "r", "o", "n", "g">>,
     <<"e", "m">>,
     <<"u", "l">>,
     <<"o", "l">>,
     <<"l", "i">>,
     <<"a">>,
     <<"c", "o", "d", "e">>,
     <<"p", "r", "e">>,
     <<"b", "l", "o", "c", "k", "q", "u", "o", "t", "e">>,
     <<"h", "1">>,
     <<"h", "2">>,
     <<"h", "3">>,
     <<"h", "4">>,
     <<"h", "5">>,
     <<"h", "6">>,
     <<"s", "p", "a", "n">>}

\* for mid, text in zip(message_ids, messages): labelled.append(text[:3000])
\* labelled = labelled[:200]
RecapLabelled(ids, msgs) ==
    Take([i \in 1..Min2(Len(ids), Len(msgs)) |-> Take(msgs[i], RECAP_MSG_CHARS)],
         RECAP_MAX_MSGS)

\* the no-key return: joined = SEP.join(labelled[:10]);
\* "<p><strong>Recap (fallback):</strong></p><pre>{}</pre>".format(escape(joined[:4000]))
FallbackRecap(lab) ==
    FALLBACK_OPEN
    \o Escape(Take(Join(SEP, Take(lab, FALLBACK_MSGS)), FALLBACK_CHARS))
    \o FALLBACK_CLOSE

\* FallbackRecapOnError with the escape left out
FallbackRecapUnescaped(lab) ==
    FALLBACK_OPEN \o Take(Join(SEP, Take(lab, FALLBACK_MSGS)), FALLBACK_CHARS) \o FALLBACK_CLOSE
\* the same two statements in the except branch
FallbackRecapOnError(lab) ==
    LET joined == Join(SEP, Take(lab, FALLBACK_MSGS))
    IN  FALLBACK_OPEN \o Escape(Take(joined, FALLBACK_CHARS)) \o FALLBACK_CLOSE

\* prompt_user = "Messages:\n\n" + SEP.join(labelled)
RecapPromptUser(lab) == LIT_MESSAGES \o Join(SEP, lab)

\* resp.raise_for_status(); data = resp.json();
\* content = data.get("choices", [{}])[0].get("message", {}).get("content", "")
\* [raises, content]; a null content is falsy like the empty string
RecapContent(r) ==
    CASE r.kind \in {"exception", "status_error", "not_json", "not_object", "empty_choices"}
            -> [raises |-> TRUE, content |-> <<>>]
      [] r.kind \in {"no_choices", "null_content"}
            -> [raises |-> FALSE, content |-> <<>>]
      [] OTHER -> [raises |-> FALSE, content |-> r.content]

\* the name of the tag written between "<" and ">"
TagName(inner) ==
    LET body == IF inner # <<>> /\ inner[1] = "/" THEN Tail(inner) ELSE inner
        stop == FirstIndex(body, Range(body) \ WordChars)
    IN  Lower(IF stop = 0 THEN body ELSE SubSeq(body, 1, stop - 1))

\* bleach.clean(content, tags=ALLOWED_TAGS, attributes=ALLOWED_ATTRS, strip=True):
\* a tag that is not allowed is dropped and its text kept, an allowed tag is
\* kept, a stray markup character is escaped (the modelled contents carry no
\* attributes and no entities)
RECURSIVE BleachFrom(_, _)
BleachFrom(s, i) ==
    IF i > Len(s) THEN <<>>
    ELSE IF s[i] = "<"
    THEN LET rest == SubSeq(s, i + 1, Len(s))
             j    == FirstIndex(rest, {">"})
         IN  IF j = 0 THEN EscapeChar("<") \o BleachFrom(s, i + 1)
             ELSE IF TagName(SubSeq(rest, 1, j - 1)) \in ALLOWED_TAGS
             THEN SubSeq(s, i, i + j) \o BleachFrom(s, i + j + 1)
             ELSE BleachFrom(s, i + j + 1)
    ELSE IF s[i] \in {">", "&"} THEN EscapeChar(s[i]) \o BleachFrom(s, i + 1)
    ELSE <<s[i]>> \o BleachFrom(s, i + 1)
BleachClean(s) == BleachFrom(s, 1)

\* strip_code_fence(s): [raises, value]; s.split("\n", 1)[1] raises IndexError
\* when the fenced text holds no newline
strip_code_fence(s) ==
    LET s1 == Strip(s)
    IN  IF ~StartsWith(s1, FENCE) THEN [raises |-> FALSE, value |-> Strip(s1)]
        ELSE IF ~HasSplitRest(s1, NL) THEN [raises |-> TRUE, value |-> <<>>]
        ELSE [raises |-> FALSE, value |-> Strip(RSplitFirst(SplitRest(s1, NL), FENCE))]

\* return f"<div class='ai-recap'>{clean}</div>"
WrapRecap(cleaned) == WRAP_OPEN \o cleaned \o WRAP_CLOSE

-----------------------------------------------------------------------------
(* message_recap.py                                                        *)

\* the module imports logging but binds no name logger: each logger.exception(...)
\* in it raises NameError
LoggerDefined == FALSE

\* str(x) of a decoded JSON value
JsonInt(n) == [t |-> "int", n |-> n, s |-> <<>>]
JsonStr(s) == [t |-> "str", n |-> 0, s |-> s]
JsonNull == [t |-> "null", n |-> 0, s |-> <<>>]
PyStr(x) ==
    CASE x.t = "int" -> IntToStr(x.n)
      [] x.t = "str" -> x.s
      [] OTHER       -> <<"N", "o", "n", "e">>

\* len(message_ids) > 200
TooManyRecapIds(ids) == Len(ids) > MAX_RECAP_IDS

\* ordered_msgs = [msgs_map[mid] for mid in message_ids if mid in msgs_map]
\* ordered_ids = [m.id for m in ordered_msgs]
OrderedIds(ids) == SelectSeq(ids, LAMBDA mid : mid \in StoredIds)
\* texts = [m.content or "" for m in ordered_msgs]
OrderedTexts(ids) == [i \in 1..Len(OrderedIds(ids)) |-> MessageStore[OrderedIds(ids)[i]]]

\* the view up to (not including) its call of generate_message_recap
RecapView(req) ==
    LET form    == req.ids
        body    == req.body
        start   == [message_ids |-> <<>>, ordered_ids |-> <<>>, texts |-> <<>>,
                    calls |-> FALSE, response |-> NoResponse]
        \* json.loads raised inside the try whose handler calls logger.exception
        crashed == form = <<>> /\ body.kind = "invalid" /\ ~LoggerDefined
        raw_ids == IF form # <<>> THEN form
                   ELSE IF body.kind = "list"
                   THEN [i \in 1..Len(body.ids) |-> PyStr(body.ids[i])]
                   ELSE <<>>
        ids     == [i \in 1..Len(raw_ids) |-> ParseInt(raw_ids[i])]
    IN  IF crashed
        THEN [start EXCEPT !.response = ErrorResponse("NameError", "name 'logger' is not defined")]
        ELSE IF raw_ids = <<>>
        THEN [start EXCEPT !.response = ErrorResponse("JsonableError", "message_ids is required")]
        ELSE IF \E i \in 1..Len(raw_ids) : ~IsIntLiteral(raw_ids[i])
        THEN [start EXCEPT !.response = ErrorResponse("JsonableError", "message_ids must be integers")]
        ELSE IF TooManyRecapIds(ids)
        THEN [start EXCEPT !.message_ids = ids,
                           !.response = ErrorResponse("JsonableError", "Too many messages requested (max 200)")]
        ELSE [start EXCEPT !.message_ids = ids, !.ordered_ids = OrderedIds(ids),
                           !.texts = OrderedTexts(ids), !.calls = TRUE]

-----------------------------------------------------------------------------
(* Inputs.                                                                 *)
\* longest explicitly enumerated tail of an id list or a message list
MaxTail == 2

Unread == "<unread>"
ApiKeys == {NoKey, "", "sk-test"}
Providers == {OPENAI, "azure"}

\* raw form values: ids 1..4 are stored, 7 is not, "" and "x" are no integers
RawItems == {<<"1">>, <<"2">>, <<"3">>, <<"4">>, <<"7">>, <<>>, <<"x">>}
Tails(S) == UNION {[1..n -> S] : n \in 0..MaxTail}
TitleDb ==
    <<"d", "b">>
TitleDatabase ==
    <<"D", "a", "t", "a", "b", "a", "s", "e", " ", "M", "i", "g", "r", "a", "t", "i", "o", "n">>
NoRequest ==
    [endpoint |-> "none", current_title |-> <<>>, message_id |-> None,
     ids |-> <<>>, body |-> [kind |-> "none", ids |-> <<>>]]
TopicPost(t, m, ids) ==
    [NoRequest EXCEPT !.endpoint = "topic", !.current_title = t, !.message_id = m,
                      !.ids = ids]
\* id lists: every tail, alone and after a run of the stored id 1 that makes up
\* five texts; every form of message_id with every tail; and the lists of the
\* stored id 1 around the limit
TopicPosts ==
    {TopicPost(t, None, Rep(<<"1">>, pad) \o tail) :
        t \in {<<>>, TitleDb, TitleDatabase},
        pad \in {0, MIN_MSGS + 1},
        tail \in Tails(RawItems)}
    \cup
    {TopicPost(t, m, tail) :
        t \in {<<>>, TitleDatabase},
        m \in {Some(<<>>), Some(<<"2">>), Some(<<"7">>), Some(<<"x">>)},
        tail \in Tails(RawItems)}
    \cup
    {TopicPost(<<>>, m, Rep(<<"1">>, n)) :
        m \in {None, Some(<<"2">>)},
        n \in (MAX_TOPIC_IDS - 1)..(MAX_TOPIC_IDS + 1)}

TextPlain ==
    <<"h", "e", "l", "l", "o", " ", "w", "o", "r", "l", "d">>
TextBlankFirst ==
    <<NL, "s", "e", "c", "o", "n", "d", " ", "l", "i", "n", "e">>
TopicOk ==
    <<"Q", "u", "a", "r", "t", "e", "r", "l", "y", " ", "p", "l", "a", "n", "n", "i", "n", "g">>
TopicTwoLines ==
    <<" ", " ", "R", "e", "l", "e", "a", "s", "e", " ", "p", "l", "a", "n", NL, "m", "o", "r",
      "e", " ", "t", "e", "x", "t">>
TopicBlank ==
    <<" ", NL, " ">>
DirectTopicInputs ==
    {[messages |-> Rep(TextPlain, pad) \o tail, current_title |-> t] :
        pad \in {0, TOPIC_RECENT - 1},
        tail \in Tails({TextPlain, TextBlankFirst, Rep("a", TOPIC_MSG_CHARS + 1)}),
        t \in {<<>>, TitleDatabase, Rep("t", TITLE_CHARS + 1), <<"a", NL, "b">>}}

FailureKinds == {"exception", "status_error", "not_json", "not_object", "empty_choices"}
EmptyKinds == {"no_choices", "null_content"}
Response(kind, text) == [kind |-> kind, content |-> text]
TopicResponses ==
    {Response(k, <<>>) : k \in FailureKinds \cup EmptyKinds}
    \cup {Response("content", c) :
            c \in {<<>>, TopicBlank, TopicOk, TopicTwoLines, Rep("t", TITLE_CHARS + 1)}}


TextHtml ==
    <<"a", "<", "b", " ", "&", " ", DQ, "c", DQ>>
RecapHtml ==
    <<"<", "p", ">", "S", "u", "m", "m", "a", "r", "y", "<", "/", "p", ">">>
RecapFenced ==
    <<BT, BT, BT, "h", "t", "m", "l", NL, "<", "p", ">", "S", "u", "m", "m", "a", "r", "y",
      "<", "/", "p", ">", NL, BT, BT, BT>>
RecapFenceOnly ==
    <<BT, BT, BT, "<", "p", ">", "x", "<", "/", "p", ">", BT, BT, BT>>
RecapScript ==
    <<"<", "s", "c", "r", "i", "p", "t", ">", "x", "<", "/", "s", "c", "r", "i", "p", "t", ">",
      "<", "p", ">", "o", "k", "<", "/", "p", ">">>
RecapRequest(ids, body) == [NoRequest EXCEPT !.endpoint = "recap", !.ids = ids, !.body = body]
Body(kind, ids) == [kind |-> kind, ids |-> ids]
\* form lists: every tail and the lists of the stored id 1 around the limit;
\* without a form list, every kind of body
RecapRequests ==
    {RecapRequest(tail, Body("none", <<>>)) : tail \in Tails(RawItems)}
    \cup
    {RecapRequest(Rep(<<"1">>, n), Body("none", <<>>)) :
        n \in (MAX_RECAP_IDS - 1)..(MAX_RECAP_IDS + 1)}
    \cup
    {RecapRequest(<<>>, Body(k, <<>>)) : k \in {"invalid", "not_dict", "no_key", "not_list"}}
    \cup
    {RecapRequest(<<>>, Body("list", tail)) :
        tail \in Tails({JsonInt(1), JsonStr(<<"x">>), JsonNull})}

DirectRecapInputs ==
    {Rep(TextPlain, pad) \o tail :
        pad \in {0, FALLBACK_MSGS - 1, RECAP_MAX_MSGS - 1},
        tail \in Tails({TextHtml, Rep("x", RECAP_MSG_CHARS + 1)})}

RecapResponses ==
    {Response(k, <<>>) : k \in FailureKinds \cup EmptyKinds}
    \cup {Response("content", c) :
            c \in {<<>>, RecapHtml, RecapFenced, RecapFenceOnly, RecapScript}}

-----------------------------------------------------------------------------
Init ==
    /\ api_key = Unread
    /\ provider = Unread
    /\ pc = "idle"
    /\ caller = "none"
    /\ request = NoRequest
    /\ message_id = None
    /\ message_ids = <<>>
    /\ anchor_id = None
    /\ texts = <<>>
    /\ messages = <<>>
    /\ ordered_ids = <<>>
    /\ current_title = <<>>
    /\ labelled = <<>>
    /\ http_request = NoHttp
    /\ prompt_src = <<>>
    /\ resp = NoResp
    /\ content = <<>>
    /\ clean = <<>>
    /\ result = NoResult
    /\ response = NoResponse
    /\ llm_calls = 0
    /\ http_posts = 0

\* max_tokens as passed by the caller (the view passes 40, the default is 64)
TopicMaxTokens(who) == IF who = "topic" THEN 40 ELSE 64

\* POST /json/ai/suggest_topic_title, up to the call of suggest_topic_title
SuggestTopicTitleBackend ==
    /\ pc = "idle"
    /\ \E post \in TopicPosts : \E v \in {TopicView(post)} :
           /\ request' = post
           /\ caller' = "topic"
           /\ message_id' = v.message_id
           /\ message_ids' = v.message_ids
           /\ anchor_id' = v.anchor_id
           /\ texts' = v.texts
           /\ current_title' = v.current_title
           /\ response' = v.response
           /\ IF v.calls
              THEN /\ pc' = "suggest_topic_title"
                   /\ messages' = v.texts
                   /\ llm_calls' = llm_calls + 1
              ELSE /\ pc' = "done"
                   /\ UNCHANGED <<messages, llm_calls>>
    /\ UNCHANGED <<settingVars, ordered_ids, labelled, http_request, prompt_src, resp,
                   content, clean, result, http_posts>>

\* a direct call suggest_topic_title(messages, current_title)
CallSuggestTopicTitle ==
    /\ pc = "idle"
    /\ caller' = "direct_topic"
    /\ \E inp \in DirectTopicInputs :
           /\ messages' = inp.messages
           /\ current_title' = inp.current_title
    /\ llm_calls' = llm_calls + 1
    /\ pc' = "suggest_topic_title"
    /\ UNCHANGED <<settingVars, viewVars, ordered_ids, labelled, http_request, prompt_src,
                   resp, content, clean, result, response, http_posts>>

\* suggest_topic_title from its entry to requests.post (not included)
SuggestTopicTitleStart ==
    /\ pc = "suggest_topic_title"
    /\ \E key \in ApiKeys, prov \in Providers :
       IF messages = <<>>
       THEN /\ result' = Return(<<>>)
            /\ pc' = "returned"
            /\ UNCHANGED <<api_key, provider, labelled, http_request, prompt_src>>
       ELSE /\ api_key' = key
            /\ provider' = prov
            /\ labelled' = TopicLabelled(messages)
            /\ IF NotConfigured(key)
               THEN /\ result' = Return(TopicFallbackNoKey(labelled', current_title))
                    /\ pc' = "returned"
                    /\ UNCHANGED <<http_request, prompt_src>>
               ELSE IF UnsupportedProvider(prov)
               THEN /\ result' = Return(TopicFallbackOnError(messages, current_title))
                    /\ pc' = "returned"
                    /\ UNCHANGED <<http_request, prompt_src>>
               ELSE /\ http_request' =
                        [url |-> COMPLETIONS_URL,
                         prompt_user |-> TopicPromptUser(messages, current_title,
                                                         current_title # <<>>, FALSE),
                         max_tokens |-> TopicMaxTokens(caller),
                         timeout |-> 10]
                    /\ prompt_src' = TopicPromptUser(MessageSources(messages),
                                                     Unsourced(current_title),
                                                     current_title # <<>>, TRUE)
                    /\ pc' = "topic_post"
                    /\ UNCHANGED result
    /\ UNCHANGED <<viewVars, argVars, resp, content, clean, response, llm_calls, http_posts>>

\* resp = requests.post(url, headers=headers, json=payload, timeout=10)
SuggestTopicTitlePost ==
    /\ pc = "topic_post"
    /\ http_posts' = http_posts + 1
    /\ resp' \in TopicResponses
    /\ pc' = "topic_response"
    /\ UNCHANGED <<settingVars, viewVars, argVars, labelled, http_request, prompt_src,
                   content, clean, result, response, llm_calls>>

\* suggest_topic_title from raise_for_status to its return
SuggestTopicTitleFinish ==
    /\ pc = "topic_response"
    /\ LET got == TopicContent(resp)
           sug == TopicSuggestion(got.content)
       IN  result' = IF got.raises \/ sug.raises
                     THEN Return(TopicFallbackOnError(messages, current_title))
                     ELSE Return(sug.value)
    /\ pc' = "returned"
    /\ UNCHANGED <<settingVars, viewVars, argVars, labelled, http_request, prompt_src,
                   resp, content, clean, response, llm_calls, http_posts>>

\* the view after the call: suggested = "" on an exception, then json_success
SuggestTopicTitleBackendRespond ==
    /\ pc = "returned"
    /\ caller = "topic"
    /\ response' = TopicSuccess(Strip(IF result.kind = "raise" THEN <<>> ELSE result.value),
                                anchor_id)
    /\ pc' = "done"
    /\ UNCHANGED <<settingVars, viewVars, argVars, labelled, http_request, prompt_src,
                   resp, content, clean, result, llm_calls, http_posts>>

\* POST /json/ai/message_recap, up to the call of generate_message_recap
MessageRecap ==
    /\ pc = "idle"
    /\ \E req \in RecapRequests : \E v \in {RecapView(req)} :
           /\ request' = req
           /\ caller' = "recap"
           /\ message_ids' = v.message_ids
           /\ ordered_ids' = v.ordered_ids
           /\ texts' = v.texts
           /\ response' = v.response
           /\ IF v.calls
              THEN /\ pc' = "generate_message_recap"
                   /\ messages' = v.texts
                   /\ llm_calls' = llm_calls + 1
              ELSE /\ pc' = "done"
                   /\ UNCHANGED <<messages, llm_calls>>
    /\ UNCHANGED <<settingVars, message_id, anchor_id, current_title, labelled,
                   http_request, prompt_src, resp, content, clean, result, http_posts>>

\* a direct call generate_message_recap(messages, message_ids)
CallGenerateMessageRecap ==
    /\ pc = "idle"
    /\ caller' = "direct_recap"
    /\ \E msgs \in DirectRecapInputs :
           /\ messages' = msgs
           /\ ordered_ids' = [i \in 1..Len(msgs) |-> i]
    /\ llm_calls' = llm_calls + 1
    /\ pc' = "generate_message_recap"
    /\ UNCHANGED <<settingVars, viewVars, current_title, labelled, http_request,
                   prompt_src, resp, content, clean, result, response, http_posts>>

\* generate_message_recap from its entry to requests.post (not included)
GenerateMessageRecapStart ==
    /\ pc = "generate_message_recap"
    /\ \E key \in ApiKeys, prov \in Providers :
       IF messages = <<>>
       THEN /\ result' = Return(NO_MESSAGES)
            /\ pc' = "returned"
            /\ UNCHANGED <<api_key, provider, labelled, http_request>>
       ELSE /\ api_key' = key
            /\ provider' = prov
            /\ labelled' = RecapLabelled(ordered_ids, messages)
            /\ IF NotConfigured(key)
               THEN /\ result' = Return(FallbackRecap(labelled'))
                    /\ pc' = "returned"
                    /\ UNCHANGED http_request
               ELSE IF UnsupportedProvider(prov)
               THEN /\ result' = Return(FallbackRecapOnError(labelled'))
                    /\ pc' = "returned"
                    /\ UNCHANGED http_request
               ELSE /\ http_request' =
                        [url |-> COMPLETIONS_URL,
                         prompt_user |-> RecapPromptUser(labelled'),
                         max_tokens |-> 800,
                         timeout |-> 20]
                    /\ pc' = "recap_post"
                    /\ UNCHANGED result
    /\ UNCHANGED <<viewVars, argVars, prompt_src, resp, content, clean, response,
                   llm_calls, http_posts>>

\* resp = requests.post(url, headers=headers, json=payload, timeout=20)
GenerateMessageRecapPost ==
    /\ pc = "recap_post"
    /\ http_posts' = http_posts + 1
    /\ resp' \in RecapResponses
    /\ pc' = "recap_response"
    /\ UNCHANGED <<settingVars, viewVars, argVars, labelled, http_request, prompt_src,
                   content, clean, result, response, llm_calls>>

\* generate_message_recap from raise_for_status to its return
GenerateMessageRecapFinish ==
    /\ pc = "recap_response"
    /\ \E got \in {RecapContent(resp)} :
       IF got.raises
       THEN /\ result' = Return(FallbackRecapOnError(labelled))
            /\ UNCHANGED <<content, clean>>
       ELSE IF got.content = <<>>
       THEN /\ result' = Return(EMPTY_RECAP)
            /\ content' = got.content
            /\ UNCHANGED clean
       ELSE \E fenced \in {strip_code_fence(got.content)} :
            /\ clean' = BleachClean(got.content)
            /\ content' = IF fenced.raises THEN got.content ELSE fenced.value
            /\ result' = IF fenced.raises THEN Raise("IndexError")
                         ELSE Return(WrapRecap(clean'))
    /\ pc' = "returned"
    /\ UNCHANGED <<settingVars, viewVars, argVars, labelled, http_request, prompt_src,
                   resp, response, llm_calls, http_posts>>

\* the view after the call: the except branch, then json_success
MessageRecapRespond ==
    /\ pc = "returned"
    /\ caller = "recap"
    /\ response' =
          IF result.kind = "raise"
          THEN IF LoggerDefined
               THEN ErrorResponse("JsonableError", "Recap generation failed; check server logs")
               ELSE ErrorResponse("NameError", "name 'logger' is not defined")
          ELSE RecapSuccess(result.value)
    /\ pc' = "done"
    /\ UNCHANGED <<settingVars, viewVars, argVars, labelled, http_request, prompt_src,
                   resp, content, clean, result, llm_calls, http_posts>>

Next ==
    \/ SuggestTopicTitleBackend
    \/ CallSuggestTopicTitle
    \/ SuggestTopicTitleStart
    \/ SuggestTopicTitlePost
    \/ SuggestTopicTitleFinish
    \/ SuggestTopicTitleBackendRespond
    \/ MessageRecap
    \/ CallGenerateMessageRecap
    \/ GenerateMessageRecapStart
    \/ GenerateMessageRecapPost
    \/ GenerateMessageRecapFinish
    \/ MessageRecapRespond

Spec == Init /\ [][Next]_vars

-----------------------------------------------------------------------------
(* Properties.                                                             *)

TopicCaller == caller \in {"topic", "direct_topic"}
RecapCaller == caller \in {"recap", "direct_recap"}
Finished == pc \in {"returned", "done"}
Count(s, v) == Cardinality({i \in DOMAIN s : s[i] = v})

\* the heuristic gate as the specification words it: fewer than 2 texts, or an
\* average length below 20, or more than 0.6 of the texts holding a title token
SpecGateFails(ts, title) ==
    \/ Len(ts) < 2
    \/ SumLen(ts) < 20 * Len(ts)
    \/ /\ TitleWords(title) # {}
       /\ 10 * TitleMatches(ts, TitleWords(title)) > 6 * Len(ts)

\* C1: in the topic view, a validated request whose texts fail a heuristic gate
\* is answered with suggested_title "" and the resolved anchor_id, and neither
\* suggest_topic_title nor requests.post is called for it.
C1_GateShortCircuits ==
    (/\ caller = "topic"
     /\ response.kind # "error"
     /\ SpecGateFails(texts, current_title))
    => /\ pc = "done"
       /\ anchor_id # None
       /\ response = TopicSuccess(<<>>, anchor_id)
       /\ llm_calls = 0
       /\ http_posts = 0

\* a request with five texts stopped by the title gate alone
C1_Witness ==
    /\ caller = "topic"
    /\ pc = "done"
    /\ response.kind = "success"
    /\ Len(texts) >= 2
    /\ SumLen(texts) >= 20 * Len(texts)
    /\ SpecGateFails(texts, current_title)
    /\ llm_calls = 0

\* C2: every success response of the topic view carries the explicit message_id
\* when one was given and else the last entry of message_ids, on every path, and
\* the view's anchor_id keeps that value once computed.
C2_AnchorId ==
    LET expected == IF message_id # None THEN message_id[1]
                    ELSE message_ids[Len(message_ids)]
    IN  /\ (caller = "topic" /\ anchor_id # None) => anchor_id = Some(expected)
        /\ (caller = "topic" /\ response.kind = "success")
              => response.anchor_id = Some(expected)

\* a success after an HTTP call, with an explicit message_id that differs from
\* the last entry of message_ids
C2_Witness ==
    /\ caller = "topic"
    /\ response.kind = "success"
    /\ http_posts = 1
    /\ message_id # None
    /\ message_ids # <<>>
    /\ message_id[1] # message_ids[Len(message_ids)]
    /\ response.anchor_id = message_id

\* C3: requests.post is called only with an API key configured and provider
\* "openai"; with the key absent or another provider both functions return
\* their fallback without calling it.
C3_PostOnlyWhenConfigured ==
    /\ http_posts > 0 => (api_key \notin {NoKey, "", Unread} /\ provider = "openai")
    /\ (/\ Finished
        /\ api_key # Unread
        /\ (api_key \in {NoKey, ""} \/ provider # "openai"))
       => /\ http_posts = 0
          /\ result.kind = "return"
          /\ RecapCaller =>
                result.value = FallbackRecap(RecapLabelled(ordered_ids, messages))
          /\ (TopicCaller /\ api_key \in {NoKey, ""}) =>
                result.value = TopicFallbackNoKey(TopicLabelled(messages), current_title)
          /\ (TopicCaller /\ api_key \notin {NoKey, ""}) =>
                result.value = TopicFallbackOnError(messages, current_title)

\* a key is configured, the provider is not "openai", and the function returned
C3_Witness ==
    /\ pc = "returned"
    /\ api_key = "sk-test"
    /\ provider # "openai"
    /\ result.kind = "return"
    /\ http_posts = 0

\* C4: whatever the inputs, the string suggest_topic_title returns is at most 60
\* characters long and holds no newline.
C4_TitleBounded ==
    (TopicCaller /\ result.kind = "return")
    => (Len(result.value) <= 60 /\ NL \notin Range(result.value))

\* C5: when the completion call succeeds and the returned content is empty or
\* whitespace-only, suggest_topic_title returns the empty string.
C5_EmptyContentGivesEmpty ==
    (/\ TopicCaller
     /\ Finished
     /\ resp.kind = "content"
     /\ Strip(resp.content) = <<>>)
    => result = Return(<<>>)

\* C6: when generate_message_recap raises, the recap view answers with the
\* JsonableError "Recap generation failed; check server logs" and nothing else.
C6_RecapFailureIsJsonable ==
    (caller = "recap" /\ pc = "done" /\ result.kind = "raise")
    => response = ErrorResponse("JsonableError", "Recap generation failed; check server logs")

\* the form values that are not blank
NonBlank(raw) == SelectSeq(raw, LAMBDA item : item # <<>>)
\* a topic request that must be refused: no ids, a non-integer id, more than 50
\* ids, or an anchor message that is not stored
TopicInvalid(req) ==
    LET given == req.message_id # None /\ req.message_id # Some(<<>>)
        items == NonBlank(req.ids)
    IN  \/ ~given /\ items = <<>>
        \/ given /\ ~IsIntLiteral(req.message_id[1])
        \/ \E i \in 1..Len(items) : ~IsIntLiteral(items[i])
        \/ Len(items) > 50
        \/ given /\ items = <<>> /\ ParseInt(req.message_id[1]) \notin StoredIds
\* the ids of a recap request: the form list, else the list of a JSON body
RecapRaw(req) ==
    IF req.ids # <<>> THEN req.ids
    ELSE IF req.body.kind = "list" THEN [i \in 1..Len(req.body.ids) |-> PyStr(req.body.ids[i])]
    ELSE <<>>
\* a recap request that must be refused: no ids, a non-integer id, more than 200
RecapInvalid(req) ==
    \/ RecapRaw(req) = <<>>
    \/ \E i \in 1..Len(RecapRaw(req)) : ~IsIntLiteral(RecapRaw(req)[i])
    \/ Len(RecapRaw(req)) > 200

\* C7: in both views a request that fails validation ends with an error before
\* any call of the ai.py function or of requests.post, and a list of exactly
\* 50 (topic) or 200 (recap) integer ids is kept whole and not refused by the
\* count check.
C7_ValidationBeforeLLM ==
    /\ (\/ request.endpoint = "topic" /\ TopicInvalid(request)
        \/ request.endpoint = "recap" /\ RecapInvalid(request))
       => (pc = "done" /\ response.kind = "error" /\ llm_calls = 0 /\ http_posts = 0)
    /\ (/\ request.endpoint = "topic"
        /\ ~TopicInvalid(request)
        /\ Len(NonBlank(request.ids)) = 50)
       => (response.error # "Too many messages requested (max 50)" /\ Len(message_ids) = 50)
    /\ (/\ request.endpoint = "recap"
        /\ ~RecapInvalid(request)
        /\ Len(RecapRaw(request)) = 200)
       => (/\ response.error # "Too many messages requested (max 200)"
           /\ Len(message_ids) = 200
           /\ llm_calls = 1)

\* 51 ids sent to the topic view are refused
C7_Witness ==
    /\ request.endpoint = "topic"
    /\ Len(request.ids) = 51
    /\ pc = "done"
    /\ response.kind = "error"
    /\ llm_calls = 0

\* C8: the user prompt suggest_topic_title sends holds text of the last 30 input
\* messages only, at most 800 characters of each.
C8_PromptBounded ==
    (TopicCaller /\ http_request.url # "")
    => \A k \in 1..Len(messages) :
          Count(prompt_src, k) <= (IF k > Len(messages) - 30 THEN 800 ELSE 0)

\* s ends with a closing fence
EndsWithFence(s) == Len(s) >= 6 /\ SubSeq(s, Len(s) - 2, Len(s)) = FENCE

\* C9: recap content that starts with a code fence and ends with the closing
\* fence is returned without the fence markers.
C9_FenceRemoved ==
    (/\ RecapCaller
     /\ result.kind = "return"
     /\ resp.kind = "content"
     /\ StartsWith(Strip(resp.content), FENCE)
     /\ EndsWithFence(Strip(resp.content)))
    => ~Contains(result.value, FENCE)

\* the recap call failed by raising before any content was extracted
RecapCallRaised ==
    /\ api_key \notin {NoKey, "", Unread}
    /\ \/ provider # "openai"
       \/ resp.kind \in {"exception", "status_error", "not_json", "not_object",
                         "empty_choices"}
\* the recap call failed in any way, a body lacking the expected fields included
RecapCallFailed ==
    /\ api_key \notin {NoKey, "", Unread}
    /\ \/ provider # "openai"
       \/ resp.kind \in {"exception", "status_error", "not_json", "not_object",
                         "empty_choices", "no_choices"}
\* generate_message_recap returned the block its no-key path builds
ReturnsNoKeyFallback ==
    /\ result.kind = "return"
    /\ result.value = FallbackRecap(RecapLabelled(ordered_ids, messages))
    /\ result.value # <<>>

\* C10 as stated: for a non-empty message list, however the recap call fails
\* (malformed body included), generate_message_recap returns the no-key fallback.
C10_AnyFailureFallsBack ==
    (RecapCaller /\ Finished /\ messages # <<>> /\ RecapCallFailed)
    => ReturnsNoKeyFallback

\* C10 amended: for a non-empty message list, when the recap call raises (HTTP
\* client exception, non-2xx status, unsupported provider, a body that is not
\* JSON, not an object, or has an empty choices list), generate_message_recap
\* raises nothing and returns the no-key fallback for the same messages.
C10_RaisedFallsBack ==
    (RecapCaller /\ Finished /\ messages # <<>> /\ RecapCallRaised)
    => ReturnsNoKeyFallback

\* a non-2xx answer for more than ten messages, one of them with markup
C10_Witness ==
    /\ RecapCaller
    /\ pc = "returned"
    /\ resp.kind = "status_error"
    /\ Len(messages) > 10
    /\ \E i \in 1..10 : "<" \in Range(messages[i])
    /\ ReturnsNoKeyFallback
====
